---- MODULE Spec2Model ----
(***************************************************************************)
(* The recursive-descent parser of SimpleLang (src/src/parser.cpp) as a    *)
(* state machine.  The token vector, the cursor `current`, the C++ call    *)
(* stack (one frame per active parser procedure, with its resume point and *)
(* its locals) and the value handed back by the last return are the state. *)
(* One action per parser procedure: the action runs the procedure from its *)
(* resume point to its next call, return or throw.                         *)
(***************************************************************************)
EXTENDS Integers, Sequences, FiniteSets, TLC

VARIABLES tokens, current, stack, ret, result, error, returned, reads

vars == <<tokens, current, stack, ret, result, error, returned, reads>>

(***************************************************************************)
(* Bounds of the model.                                                    *)
(***************************************************************************)
\* longest token sequence drawn freely over the whole alphabet
MaxLen == 3
\* Number tokens carry the literals 1..MaxNum
MaxNum == 3
\* most statements inside a generated block
MaxBlock == 2

(***************************************************************************)
(* token.h: the token kinds the parser tells apart, and Token.             *)
(***************************************************************************)
\* std::any payloads, tagged by the held type
Nullptr == [t |-> "nullptr", v |-> 0]
Double(n) == [t |-> "double", v |-> n]
Bool(b) == [t |-> "bool", v |-> IF b THEN 1 ELSE 0]
Str(s) == [t |-> "string", v |-> s]

Token(type, lexeme, literal) == [type |-> type, lexeme |-> lexeme, literal |-> literal]

\* kinds of TokenType that some grammar rule names; Identifier stands for the
\* kinds no rule names (Comma, Dot, Bang, Equal, Identifier, And, ..., Unknown)
TokenType ==
    { "LeftParen", "RightParen", "LeftBrace", "RightBrace",
      "Minus", "Plus", "Semicolon", "Slash", "Star",
      "BangEqual", "EqualEqual", "Greater", "GreaterEqual", "Less", "LessEqual",
      "Identifier", "String", "Number",
      "Else", "False", "If", "Print", "True", "Eof" }

\* what the lexer hands over: a keyword or punctuation token, a number, a string
Tok(type) == Token(type, type, Nullptr)
NumTok(n) == Token("Number", ToString(n), Double(n))
StrTok == Token("String", "s", Str(0))

(***************************************************************************)
(* expr.h: the AST nodes.                                                  *)
(***************************************************************************)
None == [kind |-> "none"]
NoToken == Token("Unknown", "", Nullptr)

LiteralExprEmpty(value) == [kind |-> "LiteralExpr", value |-> Nullptr]
LiteralExpr(value) == [kind |-> "LiteralExpr", value |-> value]
UnaryExpr(op, right) == [kind |-> "UnaryExpr", op |-> op, right |-> right]
BinaryExpr(left, op, right) ==
    [kind |-> "BinaryExpr", left |-> left, op |-> op, right |-> right]
ExpressionStmt(expression) == [kind |-> "ExpressionStmt", expression |-> expression]
PrintStmt(expression) == [kind |-> "PrintStmt", expression |-> expression]
IfStmtElseLost(cond, then, otherwise) ==
    [kind |-> "IfStmt", cond |-> cond, then |-> then, otherwise |-> otherwise,
     other_stmt_given |-> FALSE]
\* IfStmt(cond, then): no else branch
IfStmt2(cond, then) ==
    [kind |-> "IfStmt", cond |-> cond, then |-> then, otherwise |-> None,
     other_stmt_given |-> FALSE]
\* IfStmt(cond, then, otherwise)
IfStmt3(cond, then, otherwise) ==
    [kind |-> "IfStmt", cond |-> cond, then |-> then, otherwise |-> otherwise,
     other_stmt_given |-> TRUE]
BlockStmt(stmts) == [kind |-> "BlockStmt", stmts |-> stmts]

\* std::vector::push_back
PushFront(vec, x) == <<x>> \o vec
PushBack(vec, x) == Append(vec, x)

(***************************************************************************)
(* parser.cpp 23-57: the cursor primitives.  `current` is 0-based as in    *)
(* the source; tokens[i] of the source is tokens[i + 1] here.  Each        *)
(* primitive comes with the set of vector indices it reads.                *)
(***************************************************************************)
Size == Len(tokens)

peek(cur) == tokens[cur + 1]

atEnd(cur) == cur >= Size \/ peek(cur).type = "Eof"
atEndReads(cur) == IF cur >= Size THEN {} ELSE {cur}

previous(cur) == tokens[cur]

\* advance(): the new cursor (match() drops the token advance() returns)
advance(cur) == IF ~atEnd(cur) THEN cur + 1 ELSE cur
advanceReads(cur) == atEndReads(cur) \cup {advance(cur) - 1}

check(type, cur) == ~atEnd(cur) /\ peek(cur).type = type
checkReads(type, cur) == atEndReads(cur) \cup (IF ~atEnd(cur) THEN {cur} ELSE {})

\* match(): whether it matched, and the cursor it leaves
matchAlwaysAdvances(type, cur) ==
    IF cur < Size /\ check(type, cur)
    THEN [ok |-> TRUE, cur |-> advance(cur)]
    ELSE [ok |-> FALSE, cur |-> cur + 1]
match(type, cur) ==
    IF cur < Size /\ check(type, cur)
    THEN [ok |-> TRUE, cur |-> advance(cur)]
    ELSE [ok |-> FALSE, cur |-> cur]
matchReads(type, cur) ==
    IF cur < Size
    THEN checkReads(type, cur) \cup (IF check(type, cur) THEN advanceReads(cur) ELSE {})
    ELSE {}

\* consume(): match(); ok = FALSE is the throw
consumeLenient(type, cur) == [ok |-> TRUE, cur |-> match(type, cur).cur]
consume(type, cur) == match(type, cur)

\* match(t1) || match(t2) || ...: the first kind that matches, tried in order
matchAny(types, cur) ==
    LET hit == {i \in 1..Len(types) : match(types[i], cur).ok}
        first == CHOOSE i \in hit : \A j \in hit : i <= j
    IN  IF hit = {}
        THEN [ok |-> FALSE, cur |-> match(types[Len(types)], cur).cur, type |-> "Unknown"]
        ELSE [ok |-> TRUE, cur |-> match(types[first], cur).cur, type |-> types[first]]
matchAnyReads(types, cur) ==
    LET hit == {i \in 1..Len(types) : match(types[i], cur).ok}
        tried == IF hit = {} THEN 1..Len(types)
                 ELSE {i \in 1..Len(types) : \A j \in hit : i <= j}
    IN  UNION {matchReads(types[i], cur) : i \in tried}

(***************************************************************************)
(* The call stack.  A frame holds the procedure, its resume point and its  *)
(* locals; `ret` is the value the last return handed to the caller.        *)
(***************************************************************************)
Frame(fn) ==
    [fn |-> fn, pc |-> 0, left |-> None, op |-> NoToken, cond |-> None,
     then |-> None, statements |-> <<>>]

Top == stack[Len(stack)]
Callers == SubSeq(stack, 1, Len(stack) - 1)
Running(fn) == result = "running" /\ stack # <<>> /\ Top.fn = fn

NoError == [what |-> "", lexeme |-> ""]
Message(what, lexeme) == [what |-> what, lexeme |-> lexeme]

\* the running procedure, suspended as `self`, calls `callee`
Call(self, callee, cur, rd) ==
    /\ stack' = Callers \o <<self, Frame(callee)>>
    /\ current' = cur
    /\ reads' = reads \cup rd
    /\ ret' = None
    /\ UNCHANGED <<tokens, result, error, returned>>

\* the running procedure returns `value` to its caller
Return(value, cur, rd) ==
    /\ stack' = Callers
    /\ current' = cur
    /\ reads' = reads \cup rd
    /\ ret' = value
    /\ UNCHANGED <<tokens, result, error, returned>>

\* throw std::runtime_error(msg): nothing in the parser catches it, every
\* frame is unwound and parse() returns nothing
Throw(msg, rd) ==
    /\ stack' = <<>>
    /\ result' = "error"
    /\ error' = msg
    /\ reads' = reads \cup rd
    /\ ret' = None
    /\ UNCHANGED <<tokens, current, returned>>

(***************************************************************************)
(* parser.cpp 59-104: statements.                                          *)
(***************************************************************************)
parse ==
    /\ Running("parse")
    /\ LET statements == IF Top.pc = 1 THEN PushBack(Top.statements, ret)
                         ELSE Top.statements
       IN  IF ~atEnd(current)
           THEN Call([Top EXCEPT !.pc = 1, !.statements = statements],
                     "statement", current, atEndReads(current))
           ELSE /\ stack' = <<>>
                /\ result' = "ok"
                /\ returned' = statements
                /\ reads' = reads \cup atEndReads(current)
                /\ ret' = None
                /\ UNCHANGED <<tokens, current, error>>

statement ==
    /\ Running("statement")
    /\ IF Top.pc = 0
       THEN LET kinds == <<"Print", "If", "LeftBrace">>
                m == matchAny(kinds, current)
                callee == CASE m.type = "Print" -> "printStatement"
                            [] m.type = "If" -> "IfStatement"
                            [] m.type = "LeftBrace" -> "blockStmt"
                            [] OTHER -> "expressionStatement"
            IN  Call([Top EXCEPT !.pc = 1], callee, m.cur, matchAnyReads(kinds, current))
       ELSE Return(ret, current, {})

blockStmtLenient ==
    /\ Running("blockStmt")
    /\ LET statements == IF Top.pc = 1 THEN PushBack(Top.statements, ret)
                         ELSE Top.statements
           rd == checkReads("RightBrace", current) \cup atEndReads(current)
       IN  IF ~check("RightBrace", current) /\ ~atEnd(current)
           THEN Call([Top EXCEPT !.pc = 1, !.statements = statements],
                     "statement", current, rd)
           ELSE Return(BlockStmt(statements), match("RightBrace", current).cur,
                       rd \cup matchReads("RightBrace", current))
blockStmt ==
    /\ Running("blockStmt")
    /\ LET statements == IF Top.pc = 1 THEN PushBack(Top.statements, ret)
                         ELSE Top.statements
           rd == checkReads("RightBrace", current)
       IN  IF ~check("RightBrace", current)
           THEN Call([Top EXCEPT !.pc = 1, !.statements = statements],
                     "statement", current, rd)
           ELSE LET c == consume("RightBrace", current)
                    crd == rd \cup matchReads("RightBrace", current)
                IN  IF c.ok
                    THEN Return(BlockStmt(statements), c.cur, crd)
                    ELSE Throw(Message("Expect '}' after block.", ""), crd)

printStatement ==
    /\ Running("printStatement")
    /\ IF Top.pc = 0
       THEN Call([Top EXCEPT !.pc = 1], "expr", current, {})
       ELSE LET c == consume("Semicolon", current)
                rd == matchReads("Semicolon", current)
            IN  IF c.ok
                THEN Return(PrintStmt(ret), c.cur, rd)
                ELSE Throw(Message("Expect ';' after value.'", ""), rd)

IfStatement ==
    /\ Running("IfStatement")
    /\ CASE Top.pc = 0 -> Call([Top EXCEPT !.pc = 1], "expr", current, {})
         [] Top.pc = 1 ->
                Call([Top EXCEPT !.pc = 2, !.cond = ret], "statement", current, {})
         [] Top.pc = 2 ->
                LET m == match("Else", current)
                    rd == matchReads("Else", current)
                IN  IF m.ok
                    THEN Call([Top EXCEPT !.pc = 3, !.then = ret], "statement", m.cur, rd)
                    ELSE Return(IfStmt2(Top.cond, ret), m.cur, rd)
         [] OTHER -> Return(IfStmt3(Top.cond, Top.then, ret), current, {})

expressionStatement ==
    /\ Running("expressionStatement")
    /\ IF Top.pc = 0
       THEN Call([Top EXCEPT !.pc = 1], "expr", current, {})
       ELSE LET c == consume("Semicolon", current)
                rd == matchReads("Semicolon", current)
            IN  IF c.ok
                THEN Return(ExpressionStmt(ret), c.cur, rd)
                ELSE Throw(Message("Expect ';' afer expression", ""), rd)

(***************************************************************************)
(* parser.cpp 106-177: expressions.                                        *)
(***************************************************************************)
expr ==
    /\ Running("expr")
    /\ IF Top.pc = 0
       THEN Call([Top EXCEPT !.pc = 1], "equality", current, {})
       ELSE Return(ret, current, {})

\* One precedence level, `operand ( op operand )*`: the body equality(),
\* comparison(), term() and factor() share, each with its own operators and
\* its own operand procedure.
BinaryLevelRightNested(fn, ops, operand) ==
    /\ Running(fn)
    /\ IF Top.pc = 0
       THEN Call([Top EXCEPT !.pc = 1], operand, current, {})
       ELSE LET left == IF Top.pc = 1 THEN ret ELSE BinaryExpr(Top.left, Top.op, ret)
                m == matchAny(ops, current)
                rd == matchAnyReads(ops, current)
            IN  IF m.ok
                THEN Call([Top EXCEPT !.pc = 2, !.left = left, !.op = previous(m.cur)],
                          fn, m.cur, rd \cup {m.cur - 1})
                ELSE Return(left, m.cur, rd)
BinaryLevel(fn, ops, operand) ==
    /\ Running(fn)
    /\ IF Top.pc = 0
       THEN Call([Top EXCEPT !.pc = 1], operand, current, {})
       ELSE LET left == IF Top.pc = 1 THEN ret ELSE BinaryExpr(Top.left, Top.op, ret)
                m == matchAny(ops, current)
                rd == matchAnyReads(ops, current)
            IN  IF m.ok
                THEN Call([Top EXCEPT !.pc = 2, !.left = left, !.op = previous(m.cur)],
                          operand, m.cur, rd \cup {m.cur - 1})
                ELSE Return(left, m.cur, rd)

equality == BinaryLevel("equality", <<"BangEqual", "EqualEqual">>, "comparison")

comparison ==
    BinaryLevel("comparison", <<"Greater", "GreaterEqual", "Less", "LessEqual">>, "term")

termOverUnary == BinaryLevel("term", <<"Plus", "Minus">>, "unary")
term == BinaryLevel("term", <<"Plus", "Minus">>, "factor")

factor == BinaryLevel("factor", <<"Star", "Slash">>, "unary")

unaryKeepsParen ==
    /\ Running("unary")
    /\ CASE Top.pc = 0 ->
                LET signs == <<"Plus", "Minus">>
                    m == matchAny(signs, current)
                    g == match("LeftParen", current)
                    rd == matchAnyReads(signs, current)
                IN  IF m.ok
                    THEN Call([Top EXCEPT !.pc = 1, !.op = previous(m.cur)], "unary",
                              m.cur, rd \cup {m.cur - 1})
                    ELSE IF g.ok
                    THEN Call([Top EXCEPT !.pc = 2], "expr", g.cur,
                              rd \cup matchReads("LeftParen", current))
                    ELSE Call([Top EXCEPT !.pc = 3], "primary", g.cur,
                              rd \cup matchReads("LeftParen", current))
         [] Top.pc = 1 -> Return(UnaryExpr(Top.op, ret), current, {})
         [] Top.pc = 2 ->
                LET c == consume("RightParen", current)
                    rd == matchReads("RightParen", current)
                IN  IF c.ok
                    THEN Return(UnaryExpr(Tok("LeftParen"), ret), c.cur, rd)
                    ELSE Throw(Message("Expected ')'", ""), rd)
         [] OTHER -> Return(ret, current, {})
unary ==
    /\ Running("unary")
    /\ CASE Top.pc = 0 ->
                LET signs == <<"Plus", "Minus">>
                    m == matchAny(signs, current)
                    g == match("LeftParen", current)
                    rd == matchAnyReads(signs, current)
                IN  IF m.ok
                    THEN Call([Top EXCEPT !.pc = 1, !.op = previous(m.cur)], "unary",
                              m.cur, rd \cup {m.cur - 1})
                    ELSE IF g.ok
                    THEN Call([Top EXCEPT !.pc = 2], "expr", g.cur,
                              rd \cup matchReads("LeftParen", current))
                    ELSE Call([Top EXCEPT !.pc = 3], "primary", g.cur,
                              rd \cup matchReads("LeftParen", current))
         [] Top.pc = 1 -> Return(UnaryExpr(Top.op, ret), current, {})
         [] Top.pc = 2 ->
                LET c == consume("RightParen", current)
                    rd == matchReads("RightParen", current)
                IN  IF c.ok
                    THEN Return(ret, c.cur, rd)
                    ELSE Throw(Message("Expected ')'", ""), rd)
         [] OTHER -> Return(ret, current, {})

\* primary() ends in `throw ... + peek().lexeme`: peek() indexes the vector
\* unchecked.  With current past the end that read is undefined behaviour:
\* the build either goes on to throw with whatever it read or is terminated.
primary ==
    /\ Running("primary")
    /\ IF Top.pc = 0
       THEN LET kinds == <<"False", "True", "Number", "String", "LeftParen">>
                m == matchAny(kinds, current)
                rd == matchAnyReads(kinds, current)
            IN  CASE m.type = "False" -> Return(LiteralExpr(Bool(FALSE)), m.cur, rd)
                  [] m.type = "True" -> Return(LiteralExpr(Bool(TRUE)), m.cur, rd)
                  [] m.type \in {"Number", "String"} ->
                         Return(LiteralExpr(previous(m.cur).literal), m.cur,
                                rd \cup {m.cur - 1})
                  [] m.type = "LeftParen" ->
                         Call([Top EXCEPT !.pc = 1], "expr", m.cur, rd)
                  [] OTHER ->
                         IF current < Size
                         THEN Throw(Message("Parsing Error - Unexpected token: ",
                                            peek(current).lexeme),
                                    rd \cup {current})
                         ELSE \E outcome \in {"error", "crash"} :
                                 /\ stack' = <<>>
                                 /\ result' = outcome
                                 /\ error' = IF outcome = "error"
                                             THEN Message("Parsing Error - Unexpected token: ",
                                                          "<indeterminate>")
                                             ELSE NoError
                                 /\ reads' = reads \cup rd \cup {current}
                                 /\ ret' = None
                                 /\ UNCHANGED <<tokens, current, returned>>
       ELSE LET m == match("RightParen", current)
            IN  Return(ret, m.cur, matchReads("RightParen", current))

Next ==
    \/ parse
    \/ statement
    \/ blockStmt
    \/ printStatement
    \/ IfStatement
    \/ expressionStatement
    \/ expr
    \/ equality
    \/ comparison
    \/ term
    \/ factor
    \/ unary
    \/ primary

(***************************************************************************)
(* The token sequences parse() is run on.                                  *)
(***************************************************************************)
SeqsUpTo(S, n) == UNION {[1..k -> S] : k \in 0..n}

RECURSIVE Flatten(_)
Flatten(ss) == IF ss = <<>> THEN <<>> ELSE Head(ss) \o Flatten(Tail(ss))

RemoveAt(s, i) == SubSeq(s, 1, i - 1) \o SubSeq(s, i + 1, Len(s))

\* The alphabet of the freely drawn sequences: every kind the statement rules
\* and primary() name, both signs, one operator of each other precedence
\* level, and Identifier for the kinds no rule names.
FreeKinds ==
    { "LeftParen", "RightParen", "LeftBrace", "RightBrace", "Semicolon",
      "Plus", "Minus", "Star", "Less", "EqualEqual", "True",
      "If", "Else", "Print", "Identifier", "Eof" }
Alphabet == {Tok(k) : k \in FreeKinds} \cup {NumTok(1)}

Numbers == {NumTok(n) : n \in 1..MaxNum}
BinaryOps ==
    { "BangEqual", "EqualEqual", "Greater", "GreaterEqual", "Less", "LessEqual",
      "Plus", "Minus", "Star", "Slash" }
SimpleStmts ==
    { <<NumTok(1), Tok("Semicolon")>>,
      <<Tok("Print"), NumTok(1), Tok("Semicolon")>>,
      <<Tok("Print"), NumTok(2), Tok("Semicolon")>> }
Conds == {NumTok(1), Tok("True"), Tok("False")}

\* any short token sequence, with or without Eof
Free == SeqsUpTo(Alphabet, MaxLen)

\* a op1 b op2 c ; Eof
Chains ==
    { <<a, Tok(o1), b, Tok(o2), c, Tok("Semicolon"), Tok("Eof")>> :
        a \in Numbers, b \in Numbers, c \in Numbers,
        o1 \in BinaryOps, o2 \in BinaryOps }

\* ( 1 op1 2 ) op2 3 ; Eof   and   1 op1 ( 2 op2 3 ) ; Eof
Groups ==
    { <<Tok("LeftParen"), NumTok(1), Tok(o1), NumTok(2), Tok("RightParen"), Tok(o2),
        NumTok(3), Tok("Semicolon"), Tok("Eof")>> :
        o1 \in BinaryOps, o2 \in BinaryOps }
    \cup
    { <<NumTok(1), Tok(o1), Tok("LeftParen"), NumTok(2), Tok(o2), NumTok(3),
        Tok("RightParen"), Tok("Semicolon"), Tok("Eof")>> :
        o1 \in BinaryOps, o2 \in BinaryOps }

\* if c1 if c2 s1 else s2 Eof,  if c s1 else s2 Eof,  if c s1 else s2 else s2 Eof
IfElses ==
    { <<Tok("If"), c1, Tok("If"), c2>> \o s1 \o <<Tok("Else")>> \o s2 \o <<Tok("Eof")>> :
        c1 \in Conds, c2 \in Conds, s1 \in SimpleStmts, s2 \in SimpleStmts }
    \cup
    { <<Tok("If"), c>> \o s1 \o <<Tok("Else")>> \o s2 \o <<Tok("Eof")>> :
        c \in Conds, s1 \in SimpleStmts, s2 \in SimpleStmts }
    \cup
    { <<Tok("If"), c>> \o s1 \o <<Tok("Else")>> \o s2 \o <<Tok("Else")>> \o s2
          \o <<Tok("Eof")>> :
        c \in Conds, s1 \in SimpleStmts, s2 \in SimpleStmts }

\* { s1 ... sn } Eof, a statement being simple or an empty block
BlockItems == SimpleStmts \cup {<<Tok("LeftBrace"), Tok("RightBrace")>>}
Blocks ==
    { <<Tok("LeftBrace")>> \o Flatten(ss) \o <<Tok("RightBrace"), Tok("Eof")>> :
        ss \in SeqsUpTo(BlockItems, MaxBlock) }

\* a well-formed program with one token missing
DropOne(S) == UNION {{RemoveAt(s, i) : i \in 1..Len(s)} : s \in S}

\* n Eof,   n ; Eof   and   n ; Eof n ;   (tokens behind the Eof)
Literals ==
    {<<n, Tok("Eof")>> : n \in Numbers}
        \cup {<<n, Tok("Semicolon"), Tok("Eof")>> : n \in Numbers}
        \cup {<<n, Tok("Semicolon"), Tok("Eof"), n, Tok("Semicolon")>> : n \in Numbers}

Programs == Literals \cup Chains \cup Groups \cup IfElses \cup Blocks
Inputs == Free \cup Programs \cup DropOne(Groups \cup IfElses \cup Blocks)

\* the inputs of the termination check: statements, whole and broken
LiveInputs == IfElses \cup Blocks \cup DropOne(IfElses \cup Blocks)

Start ==
    /\ current = 0
    /\ stack = <<Frame("parse")>>
    /\ ret = None
    /\ result = "running"
    /\ error = NoError
    /\ returned = <<>>
    /\ reads = {}

Init == tokens \in Inputs /\ Start

Spec == Init /\ [][Next]_vars

\* parse() is one sequential call: while a procedure can take its next step,
\* it takes it
LiveInit == tokens \in LiveInputs /\ Start

LiveSpec == LiveInit /\ [][Next]_vars /\ WF_vars(Next)

(***************************************************************************)
(* What the properties below speak of: the input's shape and the trees     *)
(* expected of parse(), written out node by node.                          *)
(***************************************************************************)
Done == result # "running"

HasEof == \E i \in 1..Size : tokens[i].type = "Eof"
\* 0-based index of the first Eof token
FirstEof == CHOOSE i \in 0..(Size - 1) :
                /\ tokens[i + 1].type = "Eof"
                /\ \A j \in 0..(i - 1) : tokens[j + 1].type # "Eof"
BeforeEof == SubSeq(tokens, 1, FirstEof)

\* how many `open` tokens of ts are left without a matching `close`
RECURSIVE OpenLeft(_, _, _, _)
OpenLeft(ts, open, close, depth) ==
    IF ts = <<>> THEN depth
    ELSE OpenLeft(Tail(ts), open, close,
                  CASE Head(ts).type = open -> depth + 1
                    [] Head(ts).type = close /\ depth > 0 -> depth - 1
                    [] OTHER -> depth)
Unclosed(open, close) == HasEof /\ OpenLeft(BeforeEof, open, close, 0) > 0

Lit(any) == [kind |-> "LiteralExpr", value |-> any]
Bin(l, op, r) == [kind |-> "BinaryExpr", left |-> l, op |-> op, right |-> r]
ExprS(e) == [kind |-> "ExpressionStmt", expression |-> e]
PrintS(e) == [kind |-> "PrintStmt", expression |-> e]
IfS(c, t) ==
    [kind |-> "IfStmt", cond |-> c, then |-> t, otherwise |-> [kind |-> "none"],
     other_stmt_given |-> FALSE]
IfElseS(c, t, e) ==
    [kind |-> "IfStmt", cond |-> c, then |-> t, otherwise |-> e,
     other_stmt_given |-> TRUE]
BlockS(ss) == [kind |-> "BlockStmt", stmts |-> ss]

\* the literal an operand token stands for
LitOf(t) ==
    CASE t.type = "True" -> Lit([t |-> "bool", v |-> 1])
      [] t.type = "False" -> Lit([t |-> "bool", v |-> 0])
      [] OTHER -> Lit(t.literal)
\* the statement a simple statement's tokens stand for
StmtOf(s) ==
    CASE s[1].type = "Print" -> PrintS(LitOf(s[2]))
      [] s[1].type = "LeftBrace" -> BlockS(<<>>)
      [] OTHER -> ExprS(LitOf(s[1]))

Level(op) ==
    CASE op \in {"BangEqual", "EqualEqual"} -> 1
      [] op \in {"Greater", "GreaterEqual", "Less", "LessEqual"} -> 2
      [] op \in {"Plus", "Minus"} -> 3
      [] op \in {"Star", "Slash"} -> 4
      [] OTHER -> 0

IsOperand(t) == t.type \in {"Number", "String", "True", "False"}
\* a op1 b op2 c ; Eof
IsChain ==
    /\ Size = 7
    /\ IsOperand(tokens[1]) /\ IsOperand(tokens[3]) /\ IsOperand(tokens[5])
    /\ tokens[2].type \in BinaryOps /\ tokens[4].type \in BinaryOps
    /\ tokens[6].type = "Semicolon" /\ tokens[7].type = "Eof"
LeftNested ==
    Bin(Bin(LitOf(tokens[1]), tokens[2], LitOf(tokens[3])), tokens[4], LitOf(tokens[5]))
RightNested ==
    Bin(LitOf(tokens[1]), tokens[2], Bin(LitOf(tokens[3]), tokens[4], LitOf(tokens[5])))

(***************************************************************************)
(* C1.  On a token sequence that holds no Eof token, parse() reads the     *)
(* token vector only at indices 0..size-1: every index peek() and          *)
(* previous() have read so far lies inside the vector.                     *)
(***************************************************************************)
C1_ReadsInBounds == ~HasEof => reads \subseteq 0..(Size - 1)

\* the unchecked peek() of primary(), reached with the cursor at the end
C1_ReadPastEnd == ~HasEof /\ Size \in reads

(***************************************************************************)
(* C2.  As claimed: on `Number Eof`, with no semicolon, parse() returns    *)
(* exactly one ExpressionStmt holding the Literal of that number.          *)
(***************************************************************************)
C2_LiteralWithoutSemicolon ==
    (Size = 2 /\ tokens[1].type = "Number" /\ tokens[2].type = "Eof" /\ Done)
        => /\ result = "ok"
           /\ returned = <<ExprS(Lit(tokens[1].literal))>>

(***************************************************************************)
(* C2, amended.  On `Number ; Eof` parse() returns exactly one             *)
(* ExpressionStmt holding the Literal with that token's literal value; on  *)
(* `Number Eof` it raises "Expect ';' afer expression" and returns no      *)
(* statement.                                                              *)
(***************************************************************************)
C2_LiteralStatement ==
    /\ (Size = 3 /\ tokens[1].type = "Number" /\ tokens[2].type = "Semicolon"
            /\ tokens[3].type = "Eof" /\ Done)
        => /\ result = "ok"
           /\ returned = <<ExprS(Lit(tokens[1].literal))>>
    /\ (Size = 2 /\ tokens[1].type = "Number" /\ tokens[2].type = "Eof" /\ Done)
        => /\ result = "error"
           /\ error.what = "Expect ';' afer expression"
           /\ returned = <<>>

C2_LiteralParsed ==
    /\ tokens = <<NumTok(MaxNum), Tok("Semicolon"), Tok("Eof")>>
    /\ result = "ok"
    /\ Len(returned) = 1

\* unary(), back from a grouped expression, consumes its ')' or throws
GroupClosedOrThrown ==
    (Running("unary") /\ Top.pc = 2)
        => \/ result' = "error" /\ error'.what = "Expected ')'"
           \/ /\ check("RightParen", current)
              /\ current' = current + 1
              /\ result' = "running"

(***************************************************************************)
(* C3.  On an Eof-terminated sequence in which some '(' has no matching    *)
(* ')' before Eof, parse() ends in an error and returns no statement.  No  *)
(* step accepts a group without its ')': unary(), back from the grouped    *)
(* expression, either consumes a ')' or throws, and primary() never gets   *)
(* to open a group of its own.                                             *)
(***************************************************************************)
C3_UnclosedGroupRaises ==
    /\ [](Unclosed("LeftParen", "RightParen") /\ Done
            => result = "error" /\ returned = <<>>)
    /\ [](\A i \in 1..Len(stack) : stack[i].fn = "primary" => stack[i].pc = 0)
    /\ [][GroupClosedOrThrown]_vars

\* ( 1 + 2 + 3 ; Eof has been refused for its missing ')'
C3_UnclosedGroupRefused ==
    /\ tokens = <<Tok("LeftParen"), NumTok(1), Tok("Plus"), NumTok(2), Tok("Plus"),
                  NumTok(3), Tok("Semicolon"), Tok("Eof")>>
    /\ result = "error"
    /\ error.what = "Expected ')'"

(***************************************************************************)
(* C4.  On an Eof-terminated sequence with a '{' that no '}' closes before *)
(* Eof, parse() terminates, and by raising an error; once blockStmt() is   *)
(* at its loop with the cursor at Eof, the error follows: the loop does    *)
(* not go on for ever.                                                     *)
(***************************************************************************)
C4_UnclosedBlockRaises ==
    /\ Unclosed("LeftBrace", "RightBrace") ~> (result = "error" /\ returned = <<>>)
    /\ (HasEof /\ Running("blockStmt") /\ atEnd(current)) ~> (result = "error")

\* { print 1; Eof: the loop of blockStmt() has met Eof after one statement
C4_BlockLoopAtEof ==
    /\ Unclosed("LeftBrace", "RightBrace")
    /\ Running("blockStmt")
    /\ Top.pc = 1
    /\ atEnd(current)

(***************************************************************************)
(* C5.  `a op1 b op2 c ;` with op1 and op2 of the same precedence level    *)
(* parses to Binary(Binary(a, op1, b), op2, c), never to the right-nested  *)
(* tree.                                                                   *)
(***************************************************************************)
C5_LeftAssociative ==
    (IsChain /\ Level(tokens[2].type) = Level(tokens[4].type) /\ Done)
        => /\ result = "ok"
           /\ returned = <<ExprS(LeftNested)>>
           /\ returned # <<ExprS(RightNested)>>

\* 1 - 2 - 3 ; has been parsed
C5_OneMinusTwoMinusThree ==
    /\ tokens = <<NumTok(1), Tok("Minus"), NumTok(2), Tok("Minus"), NumTok(3),
                  Tok("Semicolon"), Tok("Eof")>>
    /\ result = "ok"
    /\ returned[1].expression.left.kind = "BinaryExpr"

(***************************************************************************)
(* C6.  `a op1 b op2 c ;` with op1 and op2 of different levels: the node   *)
(* of the tighter operator is a child of the node of the looser one,       *)
(* whichever comes first in the input.                                     *)
(***************************************************************************)
C6_Precedence ==
    (IsChain /\ Level(tokens[2].type) # Level(tokens[4].type) /\ Done)
        => /\ result = "ok"
           /\ returned = IF Level(tokens[2].type) < Level(tokens[4].type)
                         THEN <<ExprS(RightNested)>>
                         ELSE <<ExprS(LeftNested)>>

\* 1 + 2 * 3 ; has been parsed, the product under the sum
C6_SumOfProduct ==
    /\ tokens = <<NumTok(1), Tok("Plus"), NumTok(2), Tok("Star"), NumTok(3),
                  Tok("Semicolon"), Tok("Eof")>>
    /\ result = "ok"
    /\ returned[1].expression.right.kind = "BinaryExpr"

\* ( a op1 b ) op2 c ; Eof   and   a op1 ( b op2 c ) ; Eof
IsGroupFirst ==
    /\ Size = 9
    /\ tokens[1].type = "LeftParen" /\ tokens[5].type = "RightParen"
    /\ IsOperand(tokens[2]) /\ IsOperand(tokens[4]) /\ IsOperand(tokens[7])
    /\ tokens[3].type \in BinaryOps /\ tokens[6].type \in BinaryOps
    /\ tokens[8].type = "Semicolon" /\ tokens[9].type = "Eof"
IsGroupLast ==
    /\ Size = 9
    /\ tokens[3].type = "LeftParen" /\ tokens[7].type = "RightParen"
    /\ IsOperand(tokens[1]) /\ IsOperand(tokens[4]) /\ IsOperand(tokens[6])
    /\ tokens[2].type \in BinaryOps /\ tokens[5].type \in BinaryOps
    /\ tokens[8].type = "Semicolon" /\ tokens[9].type = "Eof"

\* unary() returns the grouped expression as it is, past the ')'
GroupYieldsInner ==
    (Running("unary") /\ Top.pc = 2 /\ result' = "running")
        => /\ ret' = ret
           /\ current' = current + 1
           /\ tokens[current'].type = "RightParen"

(***************************************************************************)
(* C7.  A parenthesized expression is one operand of the operator around   *)
(* it, whatever the two operators: `( a op1 b ) op2 c ;` parses to         *)
(* Binary(Binary(a, op1, b), op2, c) and `a op1 ( b op2 c ) ;` to          *)
(* Binary(a, op1, Binary(b, op2, c)).  `( e )` yields the tree of e        *)
(* itself, the cursor left just after the ')'.                             *)
(***************************************************************************)
C7_Grouping ==
    /\ []((IsGroupFirst /\ Done)
            => /\ result = "ok"
               /\ returned =
                    <<ExprS(Bin(Bin(LitOf(tokens[2]), tokens[3], LitOf(tokens[4])),
                                tokens[6], LitOf(tokens[7])))>>)
    /\ []((IsGroupLast /\ Done)
            => /\ result = "ok"
               /\ returned =
                    <<ExprS(Bin(LitOf(tokens[1]), tokens[2],
                                Bin(LitOf(tokens[4]), tokens[5], LitOf(tokens[6]))))>>)
    /\ [][GroupYieldsInner]_vars

\* ( 1 + 2 ) * 3 ; has been parsed, the sum under the product
C7_GroupedSumTimesThree ==
    /\ tokens = <<Tok("LeftParen"), NumTok(1), Tok("Plus"), NumTok(2), Tok("RightParen"),
                  Tok("Star"), NumTok(3), Tok("Semicolon"), Tok("Eof")>>
    /\ result = "ok"
    /\ returned[1].expression.op.type = "Star"
    /\ returned[1].expression.left.op.type = "Plus"

(***************************************************************************)
(* C8.  `if c1 if c2 s1 else s2` parses to an outer IfStmt without else    *)
(* whose then-branch is IfStmt(c2, s1, else s2); `if c s1 else s2` keeps   *)
(* its one else, and a second else after it is refused.                    *)
(***************************************************************************)
C8_DanglingElse ==
    (Done /\ Size > 0 /\ tokens[1].type = "If")
        => \A c1 \in Conds, s1 \in SimpleStmts, s2 \in SimpleStmts :
              /\ \A c2 \in Conds :
                    tokens = <<Tok("If"), c1, Tok("If"), c2>> \o s1 \o <<Tok("Else")>>
                                \o s2 \o <<Tok("Eof")>>
                        => /\ result = "ok"
                           /\ returned =
                                <<IfS(LitOf(c1),
                                      IfElseS(LitOf(c2), StmtOf(s1), StmtOf(s2)))>>
              /\ tokens = <<Tok("If"), c1>> \o s1 \o <<Tok("Else")>> \o s2 \o <<Tok("Eof")>>
                    => /\ result = "ok"
                       /\ returned = <<IfElseS(LitOf(c1), StmtOf(s1), StmtOf(s2))>>
              /\ tokens = <<Tok("If"), c1>> \o s1 \o <<Tok("Else")>> \o s2
                            \o <<Tok("Else")>> \o s2 \o <<Tok("Eof")>>
                    => result = "error" /\ returned = <<>>

\* if true if false 1; else print 2; has been parsed
C8_ElseOnInnerIf ==
    /\ tokens = <<Tok("If"), Tok("True"), Tok("If"), Tok("False"), NumTok(1),
                  Tok("Semicolon"), Tok("Else"), Tok("Print"), NumTok(2),
                  Tok("Semicolon"), Tok("Eof")>>
    /\ result = "ok"
    /\ ~returned[1].other_stmt_given
    /\ returned[1].then.other_stmt_given

(***************************************************************************)
(* C9.  `{ s1 ... sn }`, n >= 0, parses to one BlockStmt holding the n     *)
(* statements in source order, both braces consumed (the cursor ends on    *)
(* the Eof behind the '}').                                                *)
(***************************************************************************)
C9_BlockInOrder ==
    (Done /\ Size > 0 /\ tokens[1].type = "LeftBrace")
        => \A ss \in SeqsUpTo(BlockItems, MaxBlock) :
              tokens = <<Tok("LeftBrace")>> \o Flatten(ss) \o <<Tok("RightBrace"), Tok("Eof")>>
                  => /\ result = "ok"
                     /\ returned = <<BlockS([i \in 1..Len(ss) |-> StmtOf(ss[i])])>>
                     /\ current = Size - 1

\* { print 1; print 2; } has been parsed
C9_TwoPrints ==
    /\ tokens = <<Tok("LeftBrace"), Tok("Print"), NumTok(1), Tok("Semicolon"),
                  Tok("Print"), NumTok(2), Tok("Semicolon"), Tok("RightBrace"),
                  Tok("Eof")>>
    /\ result = "ok"
    /\ Len(returned[1].stmts) = 2

\* a step that moves the cursor is a successful match() on the token under it
CursorStep ==
    current' # current
        => /\ current' = current + 1
           /\ current < Size
           /\ match(peek(current).type, current) = [ok |-> TRUE, cur |-> current']

(***************************************************************************)
(* C10.  The cursor never decreases; it changes only by +1, and only by    *)
(* the match() that succeeds on the token under it; it never exceeds the   *)
(* number of tokens and never passes the first Eof; a match() that fails   *)
(* leaves it where it is.                                                  *)
(***************************************************************************)
C10_CursorMonotone ==
    /\ [][CursorStep]_vars
    /\ [](current >= 0 /\ current <= Size)
    /\ [](HasEof => current <= FirstEof)
    /\ [](\A k \in TokenType :
            ~match(k, current).ok => match(k, current).cur = current)

\* the cursor has stopped on the Eof of `1 ; Eof 1 ;`, tokens left behind it
C10_StoppedAtEof ==
    /\ HasEof
    /\ FirstEof < Size - 1
    /\ current = FirstEof
    /\ current > 0
    /\ result = "ok"

====
